---- MODULE Spec2Model ----
(***************************************************************************)
(* Model of the Optional query iterator                                    *)
(* (src/redisearch_rs/rqe_iterators/src/optional.rs) driven by a caller    *)
(* that issues current / read / skip_to / revalidate / rewind, over a      *)
(* child iterator that walks a sorted list of document ids.                *)
(*                                                                         *)
(* A second specification, SpecQueryError, models QueryError               *)
(* (src/redisearch_rs/query_error/src/lib.rs) driven by a caller that      *)
(* sets codes, messages and warnings and clears the error.                 *)
(*                                                                         *)
(* Option<T> is modelled as a set with at most one element: {} is None    *)
(* and {x} is Some(x).                                                     *)
(***************************************************************************)
EXTENDS Integers, FiniteSets, Sequences, TLC

\* ---------------------------------------------------------------- bounds
\* largest max_doc_id the Optional is constructed with
MaxDocId == 3
\* largest document id the child may hold (above the Optional's bound
\* whenever max_doc_id < MaxChildId)
MaxChildId == 3
\* reads issued after EOF in a run that only reads
ExtraReads == 2

\* weights the Optional may be constructed with
Weights == {2}
\* errors a child operation may fail with
Errors == {"TimedOut", "IoError"}

\* number of distinct message texts a caller hands to a QueryError
MaxMessage == 2
\* the message texts, numbered
Messages == 1..MaxMessage
\* the QueryErrorCode values a caller sets
QueryErrorCodes == {"Ok", "Generic", "Syntax", "TimedOut"}

VARIABLES
    it,         \* the Optional struct
    call,       \* the operation called last, its inputs and the struct before it
    out,        \* what the operation called last returned
    inv,        \* how often each child operation ran during that operation
    only_reads, \* only read() was called since construction, none failed
    nreads,     \* number of those reads
    only_skips, \* only skip_to() was called since construction or rewind
    last_ret,   \* doc_id of the result returned last since construction or rewind
    aborted,    \* a revalidate has seen the child report Aborted
    ahead,      \* the child result lying ahead that the caller is reading towards
    twin,       \* an Optional over an Empty child, driven in step once the child is lost
    fresh,      \* a newly constructed Optional over the same child, driven in step
                \* with it after a rewind
    qe,         \* the QueryError struct
    qcall       \* the QueryError operation called last, its inputs and the
                \* struct before it

qvars == <<qe, qcall>>

ovars == <<it, call, out, inv, only_reads, nreads, only_skips, last_ret, aborted,
           ahead, twin, fresh>>

vars == <<it, call, out, inv, only_reads, nreads, only_skips, last_ret, aborted,
          ahead, twin, fresh, qe, qcall>>

SetMin(S) == CHOOSE x \in S : \A y \in S : x <= y

\* ------------------------------------------------------- result records
\* RSIndexResult::virt().frequency(1).field_mask(RS_FIELDMASK_ALL)
VirtualResult == [doc_id |-> 0, weight |-> 0, freq |-> 1, field_mask |-> "ALL"]

\* the record a child iterator owns and hands out by reference
ChildResult == [doc_id |-> 0, weight |-> 0, freq |-> 1, field_mask |-> "ALL"]

\* what a caller sees behind a returned reference: the record and whose it is
NoRes == [src |-> "none", doc_id |-> 0, weight |-> 0, freq |-> 0, field_mask |-> "none"]
Seen(src, r) ==
    [src |-> src, doc_id |-> r.doc_id, weight |-> r.weight,
     freq |-> r.freq, field_mask |-> r.field_mask]

NoInv == [read |-> 0, skip_to |-> 0, revalidate |-> 0, rewind |-> 0, current |-> 0]

\* --------------------------------------------------------------- child
\* The child iterators of the tests: MockIterator over a sorted id list and
\* Empty.  A child is [some, kind, doc_ids, result, eof]; its position is
\* result.doc_id.
NoChild ==
    [some |-> FALSE, kind |-> "none", doc_ids |-> {}, result |-> ChildResult, eof |-> TRUE]

NewChild(kind, ids) ==
    [some |-> TRUE, kind |-> kind, doc_ids |-> ids, result |-> ChildResult, eof |-> FALSE]

child_last_doc_id(c) == c.result.doc_id

\* Option<&mut RSIndexResult>
child_current(c) == IF c.kind = "empty" THEN {} ELSE {c.result}

\* f: the error the operation fails with, "ok" for none; Empty never fails
child_read(c, f) ==
    IF f # "ok" /\ c.kind # "empty" THEN [child |-> c, status |-> "err", err |-> f]
    ELSE LET nxt == {d \in c.doc_ids : d > c.result.doc_id} IN
         IF c.eof \/ nxt = {}
         THEN [child |-> [c EXCEPT !.eof = TRUE], status |-> "none", err |-> "ok"]
         ELSE [child |-> [c EXCEPT !.result.doc_id = SetMin(nxt)],
               status |-> "some", err |-> "ok"]

child_skip_to(c, t, f) ==
    IF f # "ok" /\ c.kind # "empty" THEN [child |-> c, status |-> "err", err |-> f]
    ELSE LET cand == {d \in c.doc_ids : d >= t} IN
         IF c.eof \/ cand = {}
         THEN [child |-> [c EXCEPT !.eof = TRUE], status |-> "none", err |-> "ok"]
         ELSE [child |-> [c EXCEPT !.result.doc_id = SetMin(cand)],
               status |-> IF SetMin(cand) = t THEN "found" ELSE "notfound",
               err |-> "ok"]

\* ids the child can be moved to by a revalidation: forward only
MoveTargets(c) == {d \in c.doc_ids : d > c.result.doc_id}

\* rv: "Ok", "Moved", "Aborted" or an error; mv: where a Moved child lands
child_revalidate(c, rv, mv) ==
    IF rv = "Moved"
    THEN IF c.eof \/ mv \notin MoveTargets(c)
         THEN [child |-> [c EXCEPT !.eof = TRUE], status |-> rv]
         ELSE [child |-> [c EXCEPT !.result.doc_id = mv], status |-> rv]
    ELSE [child |-> c, status |-> rv]

child_rewind(c) == [c EXCEPT !.result.doc_id = 0, !.eof = FALSE]

\* ------------------------------------------------------------ Optional
new(max_id, weight, child) ==
    [max_doc_id |-> max_id, weight |-> weight, result |-> VirtualResult,
     child |-> child, child_result_shelved |-> {}]

last_doc_id(s) == s.result.doc_id

\* at_eof with `>` for `>=`
at_eof_strict(s) == s.result.doc_id > s.max_doc_id

at_eof(s) == s.result.doc_id >= s.max_doc_id

Ret(s, status, res, err, n) ==
    [it |-> s, status |-> status, res |-> res, err |-> err, inv |-> n]

\* current that applies the weight to the child's record it hands out
current_apply_weight(s) ==
    IF s.child.some /\ child_last_doc_id(s.child) = s.result.doc_id
    THEN LET r == child_current(s.child)
             s1 == [s EXCEPT !.child.result.weight = s.weight]
         IN IF r = {} THEN Ret(s, "none", NoRes, "ok", [NoInv EXCEPT !.current = 1])
            ELSE Ret(s1, "some", Seen("real", s1.child.result), "ok",
                     [NoInv EXCEPT !.current = 1])
    ELSE Ret(s, "some", Seen("virtual", s.result), "ok", NoInv)

current(s) ==
    IF s.child.some /\ child_last_doc_id(s.child) = s.result.doc_id
    THEN LET r == child_current(s.child) IN
         IF r = {} THEN Ret(s, "none", NoRes, "ok", [NoInv EXCEPT !.current = 1])
         ELSE Ret(s, "some", Seen("real", CHOOSE x \in r : TRUE), "ok",
                  [NoInv EXCEPT !.current = 1])
    ELSE Ret(s, "some", Seen("virtual", s.result), "ok", NoInv)

\* read_fetch that leaves the shelf set when it consumes the shelved result
read_fetch_keep_shelf(s, f) ==
    IF ~s.child.some THEN [it |-> s, real |-> {}, err |-> "ok", inv |-> NoInv]
    ELSE LET c == s.child
             sh == s.child_result_shelved
             consume == \E a \in sh :
                           s.result.doc_id + 1 = a /\ child_last_doc_id(c) = a
             passed == \E a \in sh : s.result.doc_id >= a
             s1 == IF passed THEN [s EXCEPT !.child_result_shelved = {}] ELSE s
         IN IF consume
            THEN [it |-> s1, real |-> child_current(c), err |-> "ok",
                  inv |-> [NoInv EXCEPT !.current = 1]]
            ELSE IF child_last_doc_id(c) > s.result.doc_id + 1
            THEN [it |-> s1, real |-> {}, err |-> "ok", inv |-> NoInv]
            ELSE LET r == child_read(c, f) IN
                 [it |-> [s1 EXCEPT !.child = r.child],
                  real |-> IF r.status = "some" THEN {r.child.result} ELSE {},
                  err |-> r.err,
                  inv |-> [NoInv EXCEPT !.read = 1]]

\* read_fetch that reads the child however far ahead it stands
read_fetch_no_ahead_check(s, f) ==
    IF ~s.child.some THEN [it |-> s, real |-> {}, err |-> "ok", inv |-> NoInv]
    ELSE LET c == s.child
             sh == s.child_result_shelved
             consume == \E a \in sh :
                           s.result.doc_id + 1 = a /\ child_last_doc_id(c) = a
             passed == \E a \in sh : s.result.doc_id >= a
             s1 == IF consume \/ passed
                   THEN [s EXCEPT !.child_result_shelved = {}] ELSE s
         IN IF consume
            THEN [it |-> s1, real |-> child_current(c), err |-> "ok",
                  inv |-> [NoInv EXCEPT !.current = 1]]
            ELSE LET r == child_read(c, f) IN
                 [it |-> [s1 EXCEPT !.child = r.child],
                  real |-> IF r.status = "some" THEN {r.child.result} ELSE {},
                  err |-> r.err,
                  inv |-> [NoInv EXCEPT !.read = 1]]

\* read_fetch that keeps a shelved id the position has passed
read_fetch_keep_passed(s, f) ==
    IF ~s.child.some THEN [it |-> s, real |-> {}, err |-> "ok", inv |-> NoInv]
    ELSE LET c == s.child
             sh == s.child_result_shelved
             consume == \E a \in sh :
                           s.result.doc_id + 1 = a /\ child_last_doc_id(c) = a
             s1 == IF consume THEN [s EXCEPT !.child_result_shelved = {}] ELSE s
         IN IF consume
            THEN [it |-> s1, real |-> child_current(c), err |-> "ok",
                  inv |-> [NoInv EXCEPT !.current = 1]]
            ELSE IF child_last_doc_id(c) > s.result.doc_id + 1
            THEN [it |-> s1, real |-> {}, err |-> "ok", inv |-> NoInv]
            ELSE LET r == child_read(c, f) IN
                 [it |-> [s1 EXCEPT !.child = r.child],
                  real |-> IF r.status = "some" THEN {r.child.result} ELSE {},
                  err |-> r.err,
                  inv |-> [NoInv EXCEPT !.read = 1]]

\* read(), the closure computing maybe_real: [it, real, err, inv], real the
\* Option of the child's record
read_fetch(s, f) ==
    IF ~s.child.some THEN [it |-> s, real |-> {}, err |-> "ok", inv |-> NoInv]
    ELSE LET c == s.child
             sh == s.child_result_shelved
             consume == \E a \in sh :
                           s.result.doc_id + 1 = a /\ child_last_doc_id(c) = a
             passed == \E a \in sh : s.result.doc_id >= a
             s1 == IF consume \/ passed
                   THEN [s EXCEPT !.child_result_shelved = {}] ELSE s
         IN IF consume
            THEN [it |-> s1, real |-> child_current(c), err |-> "ok",
                  inv |-> [NoInv EXCEPT !.current = 1]]
            ELSE IF child_last_doc_id(c) > s.result.doc_id + 1
            THEN [it |-> s1, real |-> {}, err |-> "ok", inv |-> NoInv]
            ELSE LET r == child_read(c, f) IN
                 [it |-> [s1 EXCEPT !.child = r.child],
                  real |-> IF r.status = "some" THEN {r.child.result} ELSE {},
                  err |-> r.err,
                  inv |-> [NoInv EXCEPT !.read = 1]]

\* read_emit that demotes a child result lying ahead without shelving it
read_emit_no_shelf(s, real, n) ==
    LET s2 == [s EXCEPT !.result.doc_id = @ + 1] IN
    IF real # {}
    THEN LET r == CHOOSE x \in real : TRUE IN
         IF r.doc_id > s2.result.doc_id
         THEN Ret(s2, "some", Seen("virtual", s2.result), "ok", n)
         ELSE LET s3 == [s2 EXCEPT !.child.result.weight = s2.weight] IN
              Ret(s3, "some", Seen("real", s3.child.result), "ok", n)
    ELSE Ret(s2, "some", Seen("virtual", s2.result), "ok", n)

\* read_emit that hands out whatever the child produced, without demotion
read_emit_no_demote(s, real, n) ==
    LET s2 == [s EXCEPT !.result.doc_id = @ + 1] IN
    IF real # {}
    THEN LET s3 == [s2 EXCEPT !.child.result.weight = s2.weight] IN
         Ret(s3, "some", Seen("real", s3.child.result), "ok", n)
    ELSE Ret(s2, "some", Seen("virtual", s2.result), "ok", n)

\* read_emit that takes an exhausted child for the end of the Optional
read_emit_child_eof(s, real, n) ==
    LET s2 == [s EXCEPT !.result.doc_id = @ + 1] IN
    IF real # {}
    THEN LET r == CHOOSE x \in real : TRUE IN
         IF r.doc_id > s2.result.doc_id
         THEN Ret([s2 EXCEPT !.child_result_shelved = {r.doc_id}],
                  "some", Seen("virtual", s2.result), "ok", n)
         ELSE LET s3 == [s2 EXCEPT !.child.result.weight = s2.weight] IN
              Ret(s3, "some", Seen("real", s3.child.result), "ok", n)
    ELSE IF n.read = 1 THEN Ret(s, "none", NoRes, "ok", n)
    ELSE Ret(s2, "some", Seen("virtual", s2.result), "ok", n)

\* read_emit that moves the position onto a child result lying ahead
read_emit_jump(s, real, n) ==
    LET s2 == [s EXCEPT !.result.doc_id = @ + 1] IN
    IF real # {}
    THEN LET r == CHOOSE x \in real : TRUE
             s3 == [s2 EXCEPT !.child.result.weight = s2.weight,
                              !.result.doc_id = r.doc_id]
         IN Ret(s3, "some", Seen("real", s3.child.result), "ok", n)
    ELSE Ret(s2, "some", Seen("virtual", s2.result), "ok", n)

\* read_emit that shelves the id of every child result, a hit included
read_emit_shelve_hit(s, real, n) ==
    LET s2 == [s EXCEPT !.result.doc_id = @ + 1] IN
    IF real # {}
    THEN LET r == CHOOSE x \in real : TRUE IN
         IF r.doc_id > s2.result.doc_id
         THEN Ret([s2 EXCEPT !.child_result_shelved = {r.doc_id}],
                  "some", Seen("virtual", s2.result), "ok", n)
         ELSE LET s3 == [s2 EXCEPT !.child.result.weight = s2.weight,
                                   !.child_result_shelved = {r.doc_id}] IN
              Ret(s3, "some", Seen("real", s3.child.result), "ok", n)
    ELSE Ret(s2, "some", Seen("virtual", s2.result), "ok", n)

\* read(), the debug_assert on the child result `real` obtained in state s,
\* taken after `self.result.doc_id += 1`
no_backwards_reads(s, real) ==
    \A r \in real : r.doc_id >= s.result.doc_id + 1

\* read(), from `self.result.doc_id += 1` on
read_emit(s, real, n) ==
    LET s2 == [s EXCEPT !.result.doc_id = @ + 1] IN
    IF real # {}
    THEN LET r == CHOOSE x \in real : TRUE IN
         IF r.doc_id > s2.result.doc_id
         THEN Ret([s2 EXCEPT !.child_result_shelved = {r.doc_id}],
                  "some", Seen("virtual", s2.result), "ok", n)
         ELSE LET s3 == [s2 EXCEPT !.child.result.weight = s2.weight] IN
              Ret(s3, "some", Seen("real", s3.child.result), "ok", n)
    ELSE Ret(s2, "some", Seen("virtual", s2.result), "ok", n)

\* read that advances before it returns the child's error
read_advance_on_error(s, f) ==
    IF at_eof(s) THEN Ret(s, "none", NoRes, "ok", NoInv)
    ELSE LET a == read_fetch(s, f) IN
         IF a.err # "ok"
         THEN Ret([a.it EXCEPT !.result.doc_id = @ + 1], "err", NoRes, a.err, a.inv)
         ELSE read_emit(a.it, a.real, a.inv)

read(s, f) ==
    IF at_eof(s) THEN Ret(s, "none", NoRes, "ok", NoInv)
    ELSE LET a == read_fetch(s, f) IN
         IF a.err # "ok" THEN Ret(a.it, "err", NoRes, a.err, a.inv)
         ELSE read_emit(a.it, a.real, a.inv)

\* skip_to_eof that pins the position to the target instead of the bound
skip_to_eof_target(s, doc_id) ==
    Ret([s EXCEPT !.result.doc_id = doc_id], "none", NoRes, "ok", NoInv)

\* skip_to_eof that also drops the shelved child result
skip_to_eof_unshelve(s, doc_id) ==
    Ret([s EXCEPT !.result.doc_id = s.max_doc_id, !.child_result_shelved = {}],
        "none", NoRes, "ok", NoInv)

\* skip_to(), the first branch: target beyond the bound, or already at EOF
skip_to_eof(s, doc_id) ==
    Ret([s EXCEPT !.result.doc_id = s.max_doc_id], "none", NoRes, "ok", NoInv)

\* skip_to(), the fall-through: the virtual hit at the target
skip_to_virtual(s, doc_id, n) ==
    LET s1 == [s EXCEPT !.result.doc_id = doc_id] IN
    Ret(s1, "found", Seen("virtual", s1.result), "ok", n)

\* skip_to_hit that takes any result the child landed on for a hit
skip_to_hit_any(r, doc_id) == r.status \in {"found", "notfound"}

\* skip_to(), the pattern `Some(Found(real)) && real.doc_id == doc_id`
skip_to_hit(r, doc_id) == r.status = "found" /\ r.child.result.doc_id = doc_id

\* skip_to_past_bound that forgets to compare the target with the bound
skip_to_past_bound_eof_only(s, doc_id) == at_eof(s)

\* skip_to(), the condition `doc_id > self.max_doc_id || self.at_eof()`
skip_to_past_bound(s, doc_id) == doc_id > s.max_doc_id \/ at_eof(s)

\* skip_to_asks_child that never turns to the child
skip_to_asks_child_never(s, doc_id) == FALSE

\* skip_to_asks_child that turns to the child wherever the child stands
skip_to_asks_child_always(s, doc_id) == s.child.some

\* skip_to(), the condition `let Some(child) = .. && doc_id > child.last_doc_id()`
skip_to_asks_child(s, doc_id) ==
    s.child.some /\ doc_id > child_last_doc_id(s.child)

skip_to(s, doc_id, f) ==
    IF skip_to_past_bound(s, doc_id) THEN skip_to_eof(s, doc_id)
    ELSE IF skip_to_asks_child(s, doc_id)
    THEN LET r == child_skip_to(s.child, doc_id, f)
             n == [NoInv EXCEPT !.skip_to = 1]
             s1 == [s EXCEPT !.child = r.child]
         IN IF r.status = "err" THEN Ret(s1, "err", NoRes, r.err, n)
            ELSE IF skip_to_hit(r, doc_id)
            THEN LET s2 == [s1 EXCEPT !.child.result.weight = s1.weight,
                                      !.result.doc_id = r.child.result.doc_id]
                 IN Ret(s2, "found", Seen("real", s2.child.result), "ok", n)
            ELSE skip_to_virtual(s1, doc_id, n)
    ELSE skip_to_virtual(s, doc_id, NoInv)

\* Moved that reports a failed re-read as a move to nothing
Moved_swallow(r, n) == Ret(r.it, "moved", r.res, "ok", n)

\* what revalidate() makes of `Moved { current: self.read()? }`
Moved(r, n) ==
    IF r.status = "err" THEN Ret(r.it, "err", NoRes, r.err, n)
    ELSE Ret(r.it, "moved", r.res, "ok", n)

AddInv(a, b) ==
    [read |-> a.read + b.read, skip_to |-> a.skip_to + b.skip_to,
     revalidate |-> a.revalidate + b.revalidate, rewind |-> a.rewind + b.rewind,
     current |-> a.current + b.current]

\* revalidate_aborted that re-reads before it drops the child
revalidate_aborted_read_first(s, last_child_doc_id, f, n) ==
    IF last_child_doc_id # s.result.doc_id
    THEN Ret([s EXCEPT !.child = NoChild], "ok", NoRes, "ok", n)
    ELSE LET r == read(s, f)
             d == [r EXCEPT !.it.child = NoChild]
         IN Moved(d, AddInv(n, r.inv))

\* revalidate_aborted that drops the child only where it re-reads
revalidate_aborted_drop_if_real(s, last_child_doc_id, f, n) ==
    IF last_child_doc_id # s.result.doc_id THEN Ret(s, "ok", NoRes, "ok", n)
    ELSE LET r == read([s EXCEPT !.child = NoChild], f) IN
         Moved(r, AddInv(n, r.inv))

\* revalidate(), the Aborted arm
revalidate_aborted(s, last_child_doc_id, f, n) ==
    LET s1 == [s EXCEPT !.child = NoChild] IN
    IF last_child_doc_id # s1.result.doc_id THEN Ret(s1, "ok", NoRes, "ok", n)
    ELSE LET r == read(s1, f) IN Moved(r, AddInv(n, r.inv))

\* revalidate_moved that reports the current result instead of re-reading
revalidate_moved_no_read(s, last_child_doc_id, f, n) ==
    IF last_child_doc_id # s.result.doc_id THEN Ret(s, "ok", NoRes, "ok", n)
    ELSE LET r == current(s) IN Moved(r, AddInv(n, r.inv))

\* revalidate(), the Moved arm
revalidate_moved(s, last_child_doc_id, f, n) ==
    IF last_child_doc_id # s.result.doc_id THEN Ret(s, "ok", NoRes, "ok", n)
    ELSE LET r == read(s, f) IN Moved(r, AddInv(n, r.inv))

\* revalidate_ok that treats a child reporting Ok like one reporting Moved
revalidate_ok_reread(s, last_child_doc_id, f, n) ==
    IF last_child_doc_id # s.result.doc_id THEN Ret(s, "ok", NoRes, "ok", n)
    ELSE LET r == read(s, f) IN Moved(r, AddInv(n, r.inv))

\* revalidate(), the Ok arm
revalidate_ok(s, last_child_doc_id, f, n) == Ret(s, "ok", NoRes, "ok", n)

revalidate(s, rv, mv, f) ==
    IF ~s.child.some THEN Ret(s, "ok", NoRes, "ok", NoInv)
    ELSE LET last_child_doc_id == child_last_doc_id(s.child)
             r == child_revalidate(s.child, rv, mv)
             n == [NoInv EXCEPT !.revalidate = 1]
             s1 == [s EXCEPT !.child = r.child]
         IN IF r.status \in Errors THEN Ret(s1, "err", NoRes, r.status, n)
            ELSE IF r.status = "Aborted"
            THEN revalidate_aborted(s1, last_child_doc_id, f, n)
            ELSE IF r.status = "Ok"
            THEN revalidate_ok(s1, last_child_doc_id, f, n)
            ELSE revalidate_moved(s1, last_child_doc_id, f, n)

\* rewind that rewinds the child and clears the shelf but keeps the position
rewind_keep_position(s) ==
    LET s1 == [s EXCEPT !.child_result_shelved = {}] IN
    IF s1.child.some
    THEN Ret([s1 EXCEPT !.child = child_rewind(s1.child)], "void", NoRes, "ok",
             [NoInv EXCEPT !.rewind = 1])
    ELSE Ret(s1, "void", NoRes, "ok", NoInv)

\* rewind that leaves the child where it stands
rewind_keep_child(s) ==
    LET s1 == [s EXCEPT !.result.doc_id = 0, !.child_result_shelved = {}] IN
    IF s1.child.some
    THEN Ret(s1, "void", NoRes, "ok", [NoInv EXCEPT !.rewind = 1])
    ELSE Ret(s1, "void", NoRes, "ok", NoInv)

rewind(s) ==
    LET s1 == [s EXCEPT !.result.doc_id = 0, !.child_result_shelved = {}] IN
    IF s1.child.some
    THEN Ret([s1 EXCEPT !.child = child_rewind(s1.child)], "void", NoRes, "ok",
             [NoInv EXCEPT !.rewind = 1])
    ELSE Ret(s1, "void", NoRes, "ok", NoInv)

\* ---------------------------------------------------------- QueryError
\* Warnings::default()
DefaultWarnings == [reached_max_prefix_expansions |-> FALSE, out_of_memory |-> FALSE]

\* QueryError::default()
DefaultQueryError ==
    [code |-> "Ok", public_message |-> {}, private_message |-> {},
     warnings |-> DefaultWarnings]

is_ok(q) == q.code = "Ok"

\* set_code without the guard on is_ok
set_code_overwrite(q, code) == [q EXCEPT !.code = code]

set_code(q, code) ==
    IF ~is_ok(q) THEN q ELSE [q EXCEPT !.code = code]

set_private_message(q, private_message) ==
    [q EXCEPT !.private_message = private_message]

set_code_and_message(q, code, message) ==
    IF ~is_ok(q) THEN q
    ELSE [q EXCEPT !.code = code, !.public_message = message,
                   !.private_message = message]

set_reached_max_prefix_expansions(q) ==
    [q EXCEPT !.warnings.reached_max_prefix_expansions = TRUE]

set_out_of_memory(q) == [q EXCEPT !.warnings.out_of_memory = TRUE]

clear(q) == DefaultQueryError

\* ----------------------------------------------------------- the caller
Called(op, arg, rv, raised) ==
    [op |-> op, arg |-> arg, rv |-> rv, raised |-> raised, pre |-> it,
     pre_ret |-> last_ret, pre_ahead |-> ahead,
     after_rewind |-> (call.op = "rewind")]

\* the error the child c raised in an operation that ran its operations n times
Raised(c, f, n) ==
    IF f # "ok" /\ c.some /\ c.kind # "empty" /\ n.read + n.skip_to > 0
    THEN f ELSE "ok"

NotAhead == [by |-> "none", id |-> 0]

\* the child's position after the operation returning r, when that operation
\* moved the child there and it lies ahead of the Optional's position
LandedAheadOf(s, t) ==
    IF /\ t.child.some
       /\ child_last_doc_id(t.child) # child_last_doc_id(s.child)
       /\ child_last_doc_id(t.child) > t.result.doc_id
    THEN {child_last_doc_id(t.child)} ELSE {}

LandedAhead(r) == LandedAheadOf(it, r.it)

AsOut(r) == [status |-> r.status, res |-> r.res, err |-> r.err]

TwinOff ==
    [on |-> FALSE, it |-> new(0, 0, NewChild("empty", {})),
     out |-> [status |-> "void", res |-> NoRes, err |-> "ok"]]

\* an Optional over an Empty child brought to the position of s
TwinAt(s) ==
    LET start == new(s.max_doc_id, s.weight, NewChild("empty", {})) IN
    IF s.result.doc_id = 0 THEN start ELSE skip_to(start, s.result.doc_id, "ok").it

\* the twin after the operation returning r
TwinStep(r) == IF twin.on THEN [on |-> TRUE, it |-> r.it, out |-> AsOut(r)] ELSE twin

FreshOff ==
    [on |-> FALSE, it |-> new(0, 0, NewChild("empty", {})),
     out |-> [status |-> "void", res |-> NoRes, err |-> "ok"]]

\* Optional::new over the child of s as it was handed to the constructor
FreshOf(s) ==
    [on |-> TRUE,
     it |-> new(s.max_doc_id, s.weight, NewChild(s.child.kind, s.child.doc_ids)),
     out |-> [status |-> "void", res |-> NoRes, err |-> "ok"]]

\* the fresh Optional after the operation returning r
FreshStep(r) == IF fresh.on THEN [on |-> TRUE, it |-> r.it, out |-> AsOut(r)] ELSE fresh

Returned(r) ==
    /\ it' = r.it
    /\ out' = AsOut(r)
    /\ inv' = r.inv

\* a result was handed to the caller by read, skip_to or revalidate
GaveResult(r) == r.status \in {"some", "found", "moved"} /\ r.res.src # "none"

Init ==
    /\ \E m \in 0..MaxDocId, w \in Weights :
         \/ \E ids \in SUBSET (1..MaxChildId) : it = new(m, w, NewChild("mock", ids))
         \/ it = new(m, w, NewChild("empty", {}))
    /\ call = [op |-> "new", arg |-> 0, rv |-> "none", raised |-> "ok", pre |-> it,
               pre_ret |-> 0, pre_ahead |-> NotAhead, after_rewind |-> FALSE]
    /\ out = [status |-> "void", res |-> NoRes, err |-> "ok"]
    /\ inv = NoInv
    /\ only_reads = TRUE
    /\ nreads = 0
    /\ only_skips = TRUE
    /\ last_ret = 0
    /\ aborted = FALSE
    /\ ahead = NotAhead
    /\ twin = TwinOff
    /\ fresh = FreshOff
    /\ qe = DefaultQueryError
    /\ qcall = [op |-> "default", code |-> "Ok", message |-> {}, pre |-> qe]

Current ==
    /\ Returned(current(it))
    /\ call' = Called("current", 0, "none", "ok")
    /\ ahead' = NotAhead
    /\ UNCHANGED <<only_reads, nreads, only_skips, last_ret, aborted, twin, fresh>>
    /\ UNCHANGED qvars

Read ==
    \E f \in {"ok"} \cup Errors :
      LET r == read(it, f) IN
      /\ only_reads => nreads < it.max_doc_id + ExtraReads
      /\ Returned(r)
      /\ call' = Called("read", 0, "none", Raised(it.child, f, r.inv))
      /\ only_reads' = (only_reads /\ r.status # "err")
      /\ nreads' = IF only_reads' THEN nreads + 1 ELSE 0
      /\ only_skips' = FALSE
      /\ last_ret' = IF GaveResult(r) THEN r.res.doc_id ELSE last_ret
      /\ ahead' = IF r.inv.read = 1 /\ LandedAhead(r) # {}
                  THEN [by |-> "read", id |-> CHOOSE d \in LandedAhead(r) : TRUE]
                  ELSE IF r.status = "err" \/ r.it.result.doc_id < ahead.id
                  THEN ahead ELSE NotAhead
      /\ twin' = TwinStep(read(twin.it, f))
      /\ fresh' = FreshStep(read(fresh.it, f))
      /\ UNCHANGED aborted
      /\ UNCHANGED qvars

SkipTo ==
    \E doc_id \in (it.result.doc_id + 1)..(it.max_doc_id + 1),
       f \in {"ok"} \cup Errors :
      LET r == skip_to(it, doc_id, f) IN
      /\ Returned(r)
      /\ call' = Called("skip_to", doc_id, "none", Raised(it.child, f, r.inv))
      /\ only_reads' = FALSE
      /\ nreads' = 0
      /\ only_skips' = (only_skips /\ r.status # "err")
      /\ last_ret' = IF GaveResult(r) THEN r.res.doc_id ELSE last_ret
      /\ ahead' = IF r.status = "found" /\ r.inv.skip_to = 1 /\ LandedAhead(r) # {}
                  THEN [by |-> "skip_to", id |-> CHOOSE d \in LandedAhead(r) : TRUE]
                  ELSE NotAhead
      /\ twin' = TwinStep(skip_to(twin.it, doc_id, f))
      /\ fresh' = FreshStep(skip_to(fresh.it, doc_id, f))
      /\ UNCHANGED aborted
      /\ UNCHANGED qvars

\* what the child at hand may report on revalidate
Reports(c) ==
    IF c.kind = "mock" THEN {"Ok", "Moved", "Aborted"} \cup Errors ELSE {"Ok"}

Revalidate ==
    \E rv \in Reports(it.child) :
    \E mv \in IF rv = "Moved" THEN MoveTargets(it.child) \cup {0} ELSE {0},
       f \in {"ok"} \cup Errors :
      LET r == revalidate(it, rv, mv, f) IN
      /\ Returned(r)
      /\ call' = Called("revalidate", mv, IF it.child.some THEN rv ELSE "none",
                        IF it.child.some /\ rv \in Errors THEN rv
                        ELSE Raised(it.child, f, r.inv))
      /\ only_reads' = FALSE
      /\ nreads' = 0
      /\ only_skips' = FALSE
      /\ last_ret' = IF GaveResult(r) THEN r.res.doc_id ELSE last_ret
      /\ aborted' = (aborted \/ (it.child.some /\ rv = "Aborted"))
      /\ ahead' = IF rv = "Moved" /\ r.status # "err" /\ LandedAhead(r) # {}
                  THEN [by |-> "moved", id |-> CHOOSE d \in LandedAhead(r) : TRUE]
                  ELSE NotAhead
      /\ twin' = IF it.child.some /\ rv = "Aborted"
                 THEN [on |-> TRUE, it |-> TwinAt(r.it), out |-> AsOut(r)]
                 ELSE TwinStep(revalidate(twin.it, "Ok", 0, f))
      /\ fresh' = FreshOff
      /\ UNCHANGED qvars

Rewind ==
    /\ Returned(rewind(it))
    /\ call' = Called("rewind", 0, "none", "ok")
    /\ only_reads' = FALSE
    /\ nreads' = 0
    /\ only_skips' = TRUE
    /\ last_ret' = 0
    /\ ahead' = NotAhead
    /\ twin' = TwinStep(rewind(twin.it))
    /\ fresh' = IF it.child.some THEN FreshOf(it) ELSE FreshOff
    /\ UNCHANGED aborted
    /\ UNCHANGED qvars

Next == Current \/ Read \/ SkipTo \/ Revalidate \/ Rewind

Spec == Init /\ [][Next]_vars

\* ------------------------------------------- the caller of a QueryError
QCalled(op, code, message) ==
    [op |-> op, code |-> code, message |-> message, pre |-> qe]

\* a QueryError::default() and no Optional in use
QInit ==
    /\ qe = DefaultQueryError
    /\ qcall = [op |-> "default", code |-> "Ok", message |-> {}, pre |-> qe]
    /\ it = new(0, 0, NewChild("empty", {}))
    /\ call = [op |-> "new", arg |-> 0, rv |-> "none", raised |-> "ok", pre |-> it,
               pre_ret |-> 0, pre_ahead |-> NotAhead, after_rewind |-> FALSE]
    /\ out = [status |-> "void", res |-> NoRes, err |-> "ok"]
    /\ inv = NoInv
    /\ only_reads = TRUE
    /\ nreads = 0
    /\ only_skips = TRUE
    /\ last_ret = 0
    /\ aborted = FALSE
    /\ ahead = NotAhead
    /\ twin = TwinOff
    /\ fresh = FreshOff

SetCode ==
    \E code \in QueryErrorCodes :
      /\ qe' = set_code(qe, code)
      /\ qcall' = QCalled("set_code", code, {})
      /\ UNCHANGED ovars

SetCodeAndMessage ==
    \E code \in QueryErrorCodes, message \in {{}} \cup {{m} : m \in Messages} :
      /\ qe' = set_code_and_message(qe, code, message)
      /\ qcall' = QCalled("set_code_and_message", code, message)
      /\ UNCHANGED ovars

SetPrivateMessage ==
    \E private_message \in {{}} \cup {{m} : m \in Messages} :
      /\ qe' = set_private_message(qe, private_message)
      /\ qcall' = QCalled("set_private_message", "Ok", private_message)
      /\ UNCHANGED ovars

SetReachedMaxPrefixExpansions ==
    /\ qe' = set_reached_max_prefix_expansions(qe)
    /\ qcall' = QCalled("set_reached_max_prefix_expansions", "Ok", {})
    /\ UNCHANGED ovars

SetOutOfMemory ==
    /\ qe' = set_out_of_memory(qe)
    /\ qcall' = QCalled("set_out_of_memory", "Ok", {})
    /\ UNCHANGED ovars

Clear ==
    /\ qe' = clear(qe)
    /\ qcall' = QCalled("clear", "Ok", {})
    /\ UNCHANGED ovars

QNext ==
    \/ SetCode \/ SetCodeAndMessage \/ SetPrivateMessage
    \/ SetReachedMaxPrefixExpansions \/ SetOutOfMemory \/ Clear

SpecQueryError == QInit /\ [][QNext]_vars

\* ------------------------------------------------------------ properties
\* the virtual placeholder positioned at d
VirtualAt(d) == Seen("virtual", [VirtualResult EXCEPT !.doc_id = d])

\* C1: on a fresh Optional with a child and max_doc_id >= 1, when only read()
\* is called, the n-th read returns a result with doc_id = n and leaves
\* last_doc_id() = n for n in 1..max_doc_id, the (max_doc_id+1)-th read returns
\* nothing, and at_eof() holds from then on.
C1_AscendingGapFreeRead ==
    (only_reads /\ nreads >= 1 /\ it.max_doc_id >= 1 /\ it.child.some) =>
        /\ (call.op = "read" /\ nreads <= it.max_doc_id) =>
              /\ out.status = "some"
              /\ out.res.doc_id = nreads
              /\ last_doc_id(it) = nreads
        /\ (call.op = "read" /\ nreads = it.max_doc_id + 1) => out.status = "none"
        /\ nreads > it.max_doc_id => at_eof(it)

C1_Witness ==
    /\ only_reads /\ call.op = "read"
    /\ it.max_doc_id = MaxDocId
    /\ nreads = it.max_doc_id + 1
    /\ it.child.some /\ it.child.doc_ids # {}
    /\ out.status = "none"

\* C2: reading every position of a fresh Optional with read() only, the result
\* at position n is the child's record with the configured weight exactly when
\* n is one of the child's ids, and otherwise the virtual placeholder (weight 0,
\* freq 1, full field mask); no id above max_doc_id is emitted.
C2_WeightOnlyOnRealHits ==
    (only_reads /\ call.op = "read" /\ out.status = "some" /\ it.child.some) =>
        /\ nreads \in it.child.doc_ids =>
              /\ out.res.src = "real"
              /\ out.res.doc_id = nreads
              /\ out.res.weight = it.weight
        /\ nreads \notin it.child.doc_ids => out.res = VirtualAt(nreads)
        /\ out.res.doc_id <= it.max_doc_id

C2_Witness ==
    /\ only_reads /\ call.op = "read"
    /\ nreads = 2 /\ 1 \notin it.child.doc_ids
    /\ out.res.src = "real" /\ out.res.weight = it.weight
    /\ \E d \in it.child.doc_ids : d > it.max_doc_id

\* C3: on a fresh or just rewound Optional with a child, when only skip_to() is
\* called with increasing targets within 1..max_doc_id, each skip_to returns the
\* child's record with the configured weight exactly when its target is one of
\* the child's ids, and the virtual placeholder (weight 0) exactly when not.
C3_SkipToMatchesMembership ==
    (only_skips /\ call.op = "skip_to" /\ out.status = "found" /\ it.child.some) =>
        /\ call.arg \in it.child.doc_ids =>
              out.res.src = "real" /\ out.res.weight = it.weight
        /\ call.arg \notin it.child.doc_ids =>
              out.res.src = "virtual" /\ out.res.weight = 0

\* C4: a skip_to(t) issued when not at EOF with last_doc_id() < t <= max_doc_id
\* that does not fail returns Found with a result whose doc_id is t and leaves
\* last_doc_id() = t, whatever the child did and whether or not it is present.
C4_SkipToAlwaysFound ==
    (/\ call.op = "skip_to" /\ out.status # "err"
     /\ ~at_eof(call.pre) /\ call.arg <= it.max_doc_id) =>
        /\ out.status = "found"
        /\ out.res.doc_id = call.arg
        /\ last_doc_id(it) = call.arg

C4_Witness ==
    /\ call.op = "skip_to" /\ out.status = "found"
    /\ inv.skip_to = 1
    /\ it.child.some /\ child_last_doc_id(it.child) > call.arg
    /\ out.res.src = "virtual" /\ out.res.doc_id = call.arg

\* C5 as stated: after any calls, rewind() makes last_doc_id() = 0 and
\* at_eof() false, and the next read() (when it does not fail) returns a result
\* with doc_id = 1.
C5_RewindResets ==
    /\ call.op = "rewind" => last_doc_id(it) = 0 /\ ~at_eof(it)
    /\ (call.op = "read" /\ call.after_rewind /\ out.status # "err") =>
          out.status = "some" /\ out.res.doc_id = 1

\* C5 amended: the same for an Optional constructed with max_doc_id >= 1; with
\* max_doc_id = 0 rewind() leaves last_doc_id() = 0 and at_eof() true.
C5_RewindResetsPositiveBound ==
    /\ call.op = "rewind" =>
          /\ last_doc_id(it) = 0
          /\ at_eof(it) = (it.max_doc_id = 0)
    /\ (call.op = "read" /\ call.after_rewind /\ out.status # "err"
        /\ it.max_doc_id >= 1) =>
          out.status = "some" /\ out.res.doc_id = 1

C5_Witness ==
    /\ call.op = "read" /\ call.after_rewind
    /\ it.max_doc_id >= 1
    /\ it.child.some /\ 1 \notin it.child.doc_ids /\ it.child.doc_ids # {}
    /\ out.status = "some" /\ out.res.doc_id = 1

\* C6: at EOF every read() and every skip_to returns nothing and changes
\* nothing (position, shelf, child), and at_eof() stays true until rewind().
C6_EofIdempotent ==
    at_eof(call.pre) =>
        /\ call.op \in {"read", "skip_to"} => out.status = "none" /\ it = call.pre
        /\ call.op # "rewind" => at_eof(it)

C6_Witness ==
    /\ call.op = "skip_to" /\ at_eof(call.pre)
    /\ call.arg > it.max_doc_id /\ it.max_doc_id >= 1
    /\ it.child.some /\ it.child_result_shelved # {}
    /\ out.status = "none"

\* C7: in every reachable state last_doc_id() <= max_doc_id, and at_eof() holds
\* exactly when last_doc_id() = max_doc_id.
C7_PositionWithinBound ==
    /\ last_doc_id(it) <= it.max_doc_id
    /\ at_eof(it) <=> (last_doc_id(it) = it.max_doc_id)

C7_Witness ==
    /\ call.op = "skip_to" /\ call.arg > it.max_doc_id
    /\ last_doc_id(call.pre) + 1 < it.max_doc_id
    /\ last_doc_id(it) = it.max_doc_id

\* C8: between two rewinds every result returned by read, skip_to or a
\* revalidate reporting Moved has a doc_id greater than that of the result
\* returned before it.
C8_StrictlyIncreasing ==
    (/\ call.op \in {"read", "skip_to", "revalidate"}
     /\ out.status \in {"some", "found", "moved"}
     /\ out.res.src # "none") =>
        /\ out.res.doc_id > call.pre_ret
        /\ last_ret = out.res.doc_id

C8_Witness ==
    /\ call.op = "revalidate" /\ out.status = "moved"
    /\ out.res.src # "none"
    /\ call.pre_ret >= 1 /\ out.res.doc_id > call.pre_ret

\* C9: when the child reports Aborted on revalidate the Optional does not fail:
\* it reports Ok with last_doc_id unchanged if the child's position before the
\* call differed from the Optional's, and otherwise Moved with the virtual
\* placeholder at last_doc_id + 1, or with nothing if it was at EOF.
C9_AbortDegrades ==
    (call.op = "revalidate" /\ call.rv = "Aborted") =>
        /\ out.status # "err"
        /\ IF child_last_doc_id(call.pre.child) # last_doc_id(call.pre)
           THEN out.status = "ok" /\ last_doc_id(it) = last_doc_id(call.pre)
           ELSE /\ out.status = "moved"
                /\ IF at_eof(call.pre)
                   THEN out.res = NoRes /\ last_doc_id(it) = last_doc_id(call.pre)
                   ELSE /\ out.res = VirtualAt(last_doc_id(call.pre) + 1)
                        /\ last_doc_id(it) = last_doc_id(call.pre) + 1

C9_Witness ==
    /\ call.op = "revalidate" /\ call.rv = "Aborted"
    /\ last_doc_id(call.pre) >= 1
    /\ \E d \in call.pre.child.doc_ids : d > last_doc_id(call.pre)
    /\ out.status = "moved" /\ out.res.src = "virtual"

\* C10: once a revalidate has seen the child report Aborted the child slot is
\* absent in every later state, rewind included; an operation that starts
\* without a child invokes no child operation; and every result returned from
\* then on by read, skip_to, revalidate or current is the virtual placeholder.
C10_ChildLossPermanent ==
    /\ aborted => ~it.child.some
    /\ ~call.pre.child.some => (~it.child.some /\ inv = NoInv)
    /\ (aborted /\ out.res.src # "none") =>
          out.res = VirtualAt(last_doc_id(it))

C10_Witness ==
    /\ aborted /\ ~it.child.some
    /\ call.op = "read" /\ call.after_rewind
    /\ out.status = "some" /\ out.res.weight = 0

\* the position a read or skip_to called last was to visit
Visited == IF call.op = "read" THEN last_doc_id(call.pre) + 1 ELSE call.arg

\* C11: an Optional whose child was dropped after Aborted and an Optional over
\* an Empty child at the same position, given the same read and skip_to calls,
\* return the same outputs step by step: the virtual placeholder at every
\* visited id in 1..max_doc_id and nothing otherwise.
C11_EmptyChildEquivalence ==
    (twin.on /\ ~call.pre.child.some /\ call.op \in {"read", "skip_to"}) =>
        /\ out = twin.out
        /\ last_doc_id(it) = last_doc_id(twin.it)
        /\ IF ~at_eof(call.pre) /\ Visited <= it.max_doc_id
           THEN out.status \in {"some", "found"} /\ out.res = VirtualAt(Visited)
           ELSE out.status = "none" /\ out.res = NoRes

C11_Witness ==
    /\ twin.on /\ ~call.pre.child.some /\ call.op = "read"
    /\ twin.it.child.some /\ twin.it.child.kind = "empty"
    /\ call.pre.child_result_shelved # {}
    /\ out.status = "some" /\ out = twin.out

\* C12: when the child reports Moved on revalidate, the Optional reports Ok with
\* last_doc_id unchanged if the child's position before the call differed from
\* its own; otherwise it re-reads once and (unless that read fails) reports
\* Moved with the read's result, last_doc_id advanced by exactly 1, or Moved
\* with nothing if it was at EOF.
C12_MovedRereadsWhenReal ==
    (call.op = "revalidate" /\ call.rv = "Moved" /\ out.status # "err") =>
        IF child_last_doc_id(call.pre.child) # last_doc_id(call.pre)
        THEN /\ out.status = "ok"
             /\ last_doc_id(it) = last_doc_id(call.pre)
             /\ inv = [NoInv EXCEPT !.revalidate = 1]
        ELSE /\ out.status = "moved"
             /\ inv.read + inv.current <= 1
             /\ IF at_eof(call.pre)
                THEN out.res = NoRes /\ last_doc_id(it) = last_doc_id(call.pre)
                ELSE /\ out.res.src # "none"
                     /\ out.res.doc_id = last_doc_id(call.pre) + 1
                     /\ last_doc_id(it) = last_doc_id(call.pre) + 1

C12_Witness ==
    /\ call.op = "revalidate" /\ call.rv = "Moved"
    /\ last_doc_id(call.pre) >= 1
    /\ child_last_doc_id(call.pre.child) = last_doc_id(call.pre)
    /\ child_last_doc_id(it.child) > child_last_doc_id(call.pre.child)
    /\ out.status = "moved" /\ out.res.doc_id = last_doc_id(call.pre) + 1

\* C13: when the child is absent or reports Ok on revalidate, the Optional's
\* revalidate reports Ok and leaves position, shelf and child as they were; a
\* present child's revalidate ran exactly once and nothing else of it ran.
C13_RevalidateOkChangesNothing ==
    (call.op = "revalidate" /\ call.rv \in {"none", "Ok"}) =>
        /\ out.status = "ok"
        /\ it = call.pre
        /\ inv = IF call.pre.child.some
                 THEN [NoInv EXCEPT !.revalidate = 1] ELSE NoInv

C13_Witness ==
    /\ call.op = "revalidate" /\ call.rv = "Ok"
    /\ last_doc_id(call.pre) >= 1
    /\ child_last_doc_id(call.pre.child) = last_doc_id(call.pre)
    /\ out.status = "ok" /\ inv.revalidate = 1

\* C14: an error raised by the child's read, skip_to or revalidate is what the
\* Optional's operation returns, the Optional returns no other error, and no
\* child operation runs more than once within one operation of the Optional.
C14_ErrorsPropagateUnchanged ==
    /\ call.raised # "ok" => out.status = "err" /\ out.err = call.raised
    /\ out.status = "err" => out.err = call.raised
    /\ out.status # "err" => out.err = "ok"
    /\ inv.read <= 1 /\ inv.skip_to <= 1 /\ inv.revalidate <= 1

C14_Witness ==
    /\ call.op = "revalidate" /\ call.rv = "Moved"
    /\ call.raised = "IoError"
    /\ inv.revalidate = 1 /\ inv.read = 1
    /\ out.status = "err" /\ out.err = "IoError"

\* C15: skip_to(t) with t > max_doc_id returns nothing in any state, leaves
\* last_doc_id() = max_doc_id, hence at_eof(), and does not touch the child.
C15_SkipBeyondBound ==
    (call.op = "skip_to" /\ call.arg > it.max_doc_id) =>
        /\ out.status = "none" /\ out.res = NoRes
        /\ last_doc_id(it) = it.max_doc_id
        /\ at_eof(it)
        /\ inv = NoInv
        /\ it.child = call.pre.child

C15_Witness ==
    /\ call.op = "skip_to" /\ call.arg > it.max_doc_id
    /\ ~at_eof(call.pre)
    /\ it.child.some /\ \E d \in it.child.doc_ids : d >= call.arg
    /\ at_eof(it)

\* C16: current() leaves the Optional as it was (position, shelf, child), and
\* a current() called right after a current() returns the same result.
C16_CurrentIsPure ==
    /\ [](call.op = "current" => it = call.pre)
    /\ [][(call.op = "current" /\ call'.op = "current") => out' = out]_vars

C16_Witness ==
    /\ call.op = "current"
    /\ last_doc_id(it) >= 1
    /\ out.status = "some" /\ out.res.src = "real"
    /\ out.res.weight # it.weight

\* C17: a current() called right after a read or skip_to that returned a
\* result returns that result: the same record, real or virtual, at
\* last_doc_id().
C17_CurrentIsLastReturned ==
    [][(/\ call.op \in {"read", "skip_to"}
        /\ out.status \in {"some", "found"}
        /\ call'.op = "current") =>
           /\ out'.status = "some"
           /\ out'.res = out.res
           /\ out'.res.doc_id = last_doc_id(it')]_vars

\* C18: when skip_to(t) made the child land on an id d with t < d <= max_doc_id
\* and the caller then only reads, the read that returns position d returns the
\* child's record with the configured weight.
C18_SkippedResultResurfaces ==
    (/\ call.op = "read" /\ call.pre_ahead.by = "skip_to"
     /\ out.status = "some" /\ out.res.doc_id = call.pre_ahead.id) =>
        out.res.src = "real" /\ out.res.weight = it.weight

\* C19: a read() that starts below the bound and does not fail returns a result
\* whose doc_id is the previous last_doc_id() + 1 and leaves last_doc_id() there.
C19_ReadAdvancesByOne ==
    (call.op = "read" /\ ~at_eof(call.pre) /\ out.status # "err") =>
        /\ out.status = "some"
        /\ out.res.doc_id = last_doc_id(call.pre) + 1
        /\ last_doc_id(it) = last_doc_id(call.pre) + 1

C19_Witness ==
    /\ call.op = "read" /\ out.status = "some"
    /\ last_doc_id(call.pre) >= 1
    /\ call.pre.child.some
    /\ child_last_doc_id(call.pre.child) > last_doc_id(call.pre) + 1
    /\ call.pre.child_result_shelved = {}

\* C20: a read whose child.read() yields an id d beyond the new position
\* returns the virtual placeholder and shelves d; while the caller then only
\* reads, each read before position d returns the virtual placeholder and
\* leaves the child alone, and the read reaching d returns the child's record
\* with the configured weight and clears the shelf.
C20_DemotionThenDelivery ==
    /\ (call.op = "read" /\ inv.read = 1 /\ LandedAheadOf(call.pre, it) # {}) =>
          /\ out.res = VirtualAt(last_doc_id(it))
          /\ it.child_result_shelved = LandedAheadOf(call.pre, it)
    /\ (call.op = "read" /\ call.pre_ahead.by = "read" /\ ~at_eof(call.pre)) =>
          /\ out.status = "some"
          /\ inv.read = 0
          /\ child_last_doc_id(it.child) = call.pre_ahead.id
          /\ IF last_doc_id(it) < call.pre_ahead.id
             THEN out.res = VirtualAt(last_doc_id(it)) /\ it.child = call.pre.child
             ELSE /\ out.res.src = "real"
                  /\ out.res.doc_id = call.pre_ahead.id
                  /\ out.res.weight = it.weight
                  /\ it.child_result_shelved = {}

C20_Witness ==
    /\ call.op = "read" /\ call.pre_ahead.by = "read"
    /\ last_doc_id(call.pre) >= 2
    /\ out.res.src = "real" /\ out.res.doc_id = call.pre_ahead.id
    /\ it.child_result_shelved = {}

\* read(), the test under which the shelved result is handed out
ShelfDue(s) ==
    \E a \in s.child_result_shelved :
       s.result.doc_id + 1 = a /\ child_last_doc_id(s.child) = a

\* read(), the conditions under which control reaches `child.read()`
ReadAsksChild(s) ==
    /\ s.child.some
    /\ ~at_eof(s)
    /\ ~ShelfDue(s)
    /\ child_last_doc_id(s.child) <= last_doc_id(s) + 1

\* C21: read() calls child.read() only when the child is present, the Optional
\* is not at EOF, the shelved result is not being handed out and the child's
\* last_doc_id is at most last_doc_id() + 1; in every other case the child
\* is not read and stands after the read where it stood before.
C21_ReadAsksChildOnlyWhenNear ==
    call.op = "read" =>
        /\ inv.read = 1 => ReadAsksChild(call.pre)
        /\ ~ReadAsksChild(call.pre) =>
              /\ inv.read = 0
              /\ child_last_doc_id(it.child) = child_last_doc_id(call.pre.child)
              /\ it.child.eof = call.pre.child.eof

C21_Witness ==
    /\ call.op = "read" /\ out.status = "some"
    /\ call.pre.child.some /\ ~at_eof(call.pre)
    /\ child_last_doc_id(call.pre.child) > last_doc_id(call.pre) + 1
    /\ inv.read = 0
    /\ call.pre_ahead.by = "skip_to"

\* C22 (as stated): whenever the child is present and an id is shelved, that
\* id is strictly greater than last_doc_id().
C22_ShelfStrictlyAhead ==
    it.child.some => \A a \in it.child_result_shelved : a > last_doc_id(it)

\* C22 (amended): the shelved id is strictly greater than last_doc_id() right
\* after the operation that shelved it, and for as long as only read() has
\* been called since construction.
C22_ShelfAheadWhileReading ==
    (it.child.some /\ (only_reads \/ it.child_result_shelved # call.pre.child_result_shelved)) =>
        \A a \in it.child_result_shelved : a > last_doc_id(it)

C22_Witness ==
    /\ only_reads /\ it.child.some
    /\ it.child_result_shelved = {3}
    /\ last_doc_id(it) = 2
    /\ call.op = "read"

\* C23 (as stated): a read() called with the child present while the position
\* is at or past the shelved id does not hand out the shelved result and
\* leaves that id off the shelf.
C23_PassedShelfCleared ==
    \A a \in call.pre.child_result_shelved :
       (call.op = "read" /\ call.pre.child.some /\ last_doc_id(call.pre) >= a) =>
           /\ inv.current = 0
           /\ out.res.src = "real" => out.res.doc_id > a
           /\ a \notin it.child_result_shelved

\* C23 (amended): the same for a read() called below the bound; at EOF read()
\* returns before it looks at the shelf.
C23_PassedShelfClearedBelowBound ==
    \A a \in call.pre.child_result_shelved :
       (/\ call.op = "read" /\ call.pre.child.some /\ last_doc_id(call.pre) >= a
        /\ ~at_eof(call.pre)) =>
           /\ inv.current = 0
           /\ out.res.src = "real" => out.res.doc_id > a
           /\ a \notin it.child_result_shelved

C23_Witness ==
    /\ call.op = "read" /\ call.pre.child.some /\ ~at_eof(call.pre)
    /\ \E a \in call.pre.child_result_shelved : last_doc_id(call.pre) >= a
    /\ out.status = "some"
    /\ it.child_result_shelved = {}

\* the states in which the operation called last entered read() below the
\* bound: read() itself, or the re-read of a revalidate whose child moved
ReadEntry ==
    IF call.op = "read" THEN {call.pre}
    ELSE IF /\ call.op = "revalidate" /\ call.pre.child.some /\ call.rv = "Moved"
            /\ child_last_doc_id(call.pre.child) = last_doc_id(call.pre)
    THEN {[call.pre EXCEPT
             !.child = child_revalidate(call.pre.child, "Moved", call.arg).child]}
    ELSE {}

\* C24: the assertion in read() holds: every child result a read() obtains,
\* from child.read() or from the shelf, has doc_id >= the new position.
C24_NoBackwardsReads ==
    \A s \in ReadEntry :
       ~at_eof(s) =>
          LET a == read_fetch(s, call.raised) IN
          a.err = "ok" => no_backwards_reads(a.it, a.real)

C24_Witness ==
    /\ call.op = "read" /\ last_doc_id(call.pre) >= 1
    /\ call.pre_ret = last_doc_id(call.pre)
    /\ inv.read = 1
    /\ out.res.src = "real"
    /\ ~only_reads

\* C25: a current() called first after construction or right after rewind()
\* returns a result whose doc_id is 0.
C25_CurrentAtStart ==
    [][(call.op \in {"new", "rewind"} /\ call'.op = "current") =>
           out'.status = "some" /\ out'.res.doc_id = 0]_vars

\* C26: when a revalidate whose child reported Moved left the child on an id
\* m with last_doc_id() < m <= max_doc_id and the caller then only reads, the
\* read that returns position m returns the child's record with the
\* configured weight.
C26_MovedResultResurfaces ==
    (/\ call.op = "read" /\ call.pre_ahead.by = "moved"
     /\ out.status = "some" /\ out.res.doc_id = call.pre_ahead.id) =>
        out.res.src = "real" /\ out.res.weight = it.weight

\* C27: a revalidate() whose child reports Ok, Moved or Aborted, called right
\* after a read or skip_to that returned the virtual placeholder, or first
\* after construction or rewind, reports Ok and leaves last_doc_id() unchanged.
C27_RevalidateOkWhenVirtual ==
    [][(/\ \/ call.op \in {"new", "rewind"}
           \/ call.op \in {"read", "skip_to"} /\ out.res.src = "virtual"
        /\ call'.op = "revalidate"
        /\ call'.rv \notin Errors) =>
           out'.status = "ok" /\ last_doc_id(it') = last_doc_id(it)]_vars

\* C28: a read() or skip_to() that fails with the child's error leaves
\* last_doc_id() and at_eof() as they were and the child in place.
C28_FailedCallKeepsPosition ==
    (call.op \in {"read", "skip_to"} /\ out.status = "err") =>
        /\ last_doc_id(it) = last_doc_id(call.pre)
        /\ at_eof(it) = at_eof(call.pre)
        /\ it.child.some

C28_Witness ==
    /\ call.op = "read" /\ out.status = "err"
    /\ last_doc_id(call.pre) >= 1
    /\ call.pre.child_result_shelved # {}

\* C29: child.skip_to(t) is called only by skip_to(t), at most once, with t
\* strictly greater than the child's last_doc_id and t <= max_doc_id, and
\* never when the Optional is at EOF.
C29_ChildSkipToPrecondition ==
    inv.skip_to >= 1 =>
        /\ call.op = "skip_to" /\ inv.skip_to = 1
        /\ call.arg > child_last_doc_id(call.pre.child)
        /\ call.arg <= call.pre.max_doc_id
        /\ ~at_eof(call.pre)

C29_Witness ==
    /\ inv.skip_to = 1 /\ out.status = "found"
    /\ child_last_doc_id(call.pre.child) >= 1
    /\ last_doc_id(call.pre) >= 1

\* C30: after rewind() of an Optional whose child is present, every read and
\* skip_to returns what the same call returns on a newly constructed Optional
\* over the same child that was taken through the same calls, and leaves
\* last_doc_id() and at_eof() the same.
C30_RewindRestoresInitialState ==
    /\ (fresh.on /\ call.op = "rewind") =>
          /\ last_doc_id(it) = 0 /\ it.child_result_shelved = {}
          /\ child_last_doc_id(it.child) = 0 /\ ~it.child.eof
    /\ (fresh.on /\ call.op \in {"read", "skip_to"}) =>
          /\ out = fresh.out
          /\ last_doc_id(it) = last_doc_id(fresh.it)
          /\ at_eof(it) = at_eof(fresh.it)

C30_Witness ==
    /\ fresh.on /\ call.op = "read"
    /\ out.res.src = "virtual" /\ it.child_result_shelved # {}
    /\ fresh.it # it

\* C31: once the code of a QueryError is not Ok, set_code and
\* set_code_and_message leave the code, the public message and the private
\* message unchanged; only clear() brings the code back to Ok, and it leaves
\* no message; on a QueryError whose code is Ok, as after clear(), a set_code
\* or set_code_and_message with a code other than Ok takes effect.
C31_FirstErrorKept ==
    /\ (qcall.op \in {"set_code", "set_code_and_message"} /\ ~is_ok(qcall.pre)) =>
          /\ qe.code = qcall.pre.code
          /\ qe.public_message = qcall.pre.public_message
          /\ qe.private_message = qcall.pre.private_message
    /\ (~is_ok(qcall.pre) /\ is_ok(qe)) => qcall.op = "clear"
    /\ qcall.op = "clear" =>
          is_ok(qe) /\ qe.public_message = {} /\ qe.private_message = {}
    /\ (/\ qcall.op \in {"set_code", "set_code_and_message"}
        /\ is_ok(qcall.pre) /\ qcall.code # "Ok") =>
          /\ qe.code = qcall.code
          /\ qcall.op = "set_code_and_message" =>
                /\ qe.public_message = qcall.message
                /\ qe.private_message = qcall.message

C31_Witness ==
    /\ qcall.op = "set_code_and_message"
    /\ ~is_ok(qcall.pre)
    /\ qcall.code \notin {"Ok", qcall.pre.code}
    /\ qcall.message # {} /\ qcall.message # qcall.pre.public_message
    /\ qcall.pre.public_message # {}
    /\ qcall.pre.private_message # qcall.pre.public_message

====
